---- MODULE Spec2Model ----
(***************************************************************************)
(* SCP Quality Automation System (src/CSP.py).                             *)
(*                                                                         *)
(* The module models one run of the program: the construction of the       *)
(* SCPSigmaTransfer session, the secure_transfer calls of the main loop    *)
(* (one per entry of files_to_transfer, with any verify flag and any       *)
(* retry budget), the quality report, the control chart and the release    *)
(* of the two resources by __exit__.  secure_transfer is followed line by  *)
(* line; the clock, the local file, the channel and the remote digest      *)
(* command are the environment and answer nondeterministically.            *)
(*                                                                         *)
(* Floating point values are modelled exactly: a throughput is a reduced   *)
(* fraction, a statistic that needs a square root or the normal quantile   *)
(* is kept in symbolic form.                                               *)
(***************************************************************************)
EXTENDS Integers, Sequences, FiniteSets, TLC

(***************************************************************************)
(* Bounds of the model.                                                    *)
(***************************************************************************)
\* retries ranges over 0..MaxRetries
MaxRetries == 3
\* the analyzer is applied to sample sequences of length 0..MaxSamples
MaxSamples == 3

(***************************************************************************)
(* Program constants.                                                      *)
(***************************************************************************)
\* time.sleep(2 ** attempt)
BackoffBase == 2
\* throughput_mbps = (file_size * 8) / (transfer_time * 1_000_000)
BitsPerByte == 8
BitsPerMegabit == 1000000
\* analyzer.calculate_cpk(100, 10)
ReportUsl == 100
ReportLsl == 10
\* defects = sum(1 for x in self.data if x < 10)
DefectThreshold == 10
\* mean +/- 3*std, (usl-mean)/(3*std)
SigmaFactor == 3

\* files_to_transfer of the example usage
files_to_transfer == << "file1", "file2" >>

\* the contents a file may have, and the file that is not there
Contents == { 1, 2 }
Missing == 0
\* the size in bytes of a content (1.25 MB per unit, so that 1 unit sent in
\* 1 time unit is 10 Mbps)
SizeOf(c) == c * 1250000

(***************************************************************************)
(* Arithmetic helpers.                                                     *)
(***************************************************************************)
RECURSIVE Pow(_, _)
Pow(b, e) == IF e = 0 THEN 1 ELSE b * Pow(b, e - 1)

RECURSIVE Gcd(_, _)
Gcd(a, b) == IF b = 0 THEN a ELSE Gcd(b, a % b)

Abs(x) == IF x < 0 THEN -x ELSE x

\* the exact value of the true division n / d (d # 0), as a reduced fraction
\* with a positive denominator
Frac(n, d) ==
    LET g == Gcd(Abs(n), Abs(d))
        s == IF d < 0 THEN -1 ELSE 1
    IN  [num |-> (s * n) \div g, den |-> (s * d) \div g]

(***************************************************************************)
(* Digests.  A digest string is the content it is the digest of, and       *)
(* whether its hex letters are written in upper case.                      *)
(***************************************************************************)
\* _calculate_sha256: hexdigest() is lower case; an unreadable file raises
LocalDigest(c) == [hex |-> c, upper |-> FALSE]
\* a digest variable that was not assigned yet
NoDigest == [hex |-> Missing, upper |-> FALSE]

\* what "sha256sum <remote_path>" may print for a remote content c: the
\* digest and the path, the same in upper case, or nothing at all
RemoteOutputs(c) ==
    { << [hex |-> c, upper |-> FALSE], "path" >>,
      << [hex |-> c, upper |-> TRUE], "path" >>,
      << >> }

\* stdout.read().split()[0].decode(): the first whitespace-delimited token
HasFirstToken(out) == Len(out) >= 1
FirstToken(out) == out[1]

\* (mutant) a mismatch is let through
MismatchIgnored(local_hash, remote_hash) == FALSE
\* if local_hash != remote_hash: raise IntegrityError
Mismatch(local_hash, remote_hash) == local_hash # remote_hash

(***************************************************************************)
(* The retry policy.                                                       *)
(***************************************************************************)
ExceptionKinds ==
    { "OSError", "SCPException", "SSHException", "IndexError",
      "IntegrityError", "ZeroDivisionError" }

\* (mutant) only the transfer's own failures are caught
CaughtNarrow(exc) == exc \in { "SCPException", "IntegrityError" }
\* except Exception as e: every failure raised inside the try block
Caught(exc) == exc \in ExceptionKinds

\* (mutant) gives up one attempt late
ExhaustedLate(attempt, retries) == attempt = retries + 1
\* (mutant) gives up one attempt early
ExhaustedEarly(attempt, retries) == attempt >= retries - 1
\* if attempt == retries: return False
Exhausted(attempt, retries) == attempt = retries

\* (mutant) the range begins at 0
RangeNonEmptyFromZero(retries) == retries >= 0
\* for attempt in range(1, retries + 1): the loop body runs at all
RangeNonEmpty(retries) == retries >= 1

\* (mutant) backoff starting at 1
BackoffDelayFromOne(attempt) == Pow(BackoffBase, attempt - 1)
\* time.sleep(2 ** attempt)
BackoffDelay(attempt) == Pow(BackoffBase, attempt)

\* (mutant) the clock is read once, before the first attempt
StartTimeOnce(attempt, previous, clock) == IF attempt = 1 THEN clock ELSE previous
\* start_time = time.time(), at the top of every attempt
StartTime(attempt, previous, clock) == clock

\* (mutant) the digest of the first attempt is kept
LocalHashOnce(attempt, previous, content) ==
    IF attempt = 1 \/ previous = NoDigest THEN LocalDigest(content) ELSE previous
\* local_hash = self._calculate_sha256(local_path), in every attempt
LocalHash(attempt, previous, content) == LocalDigest(content)

\* the TransferMetrics record of lines 103-110
TransferMetrics(filename, file_size, transfer_time, local_hash, clock) ==
    [ filename |-> filename,
      size_bytes |-> file_size,
      duration_sec |-> transfer_time,
      throughput_mbps |-> Frac(file_size * BitsPerByte, transfer_time * BitsPerMegabit),
      sha256_checksum |-> local_hash,
      timestamp |-> clock ]

\* (mutant) the record is appended twice
\* (mutant) the new record replaces the list
AppendedReplacing(m, rec) == << rec >>
AppendedTwice(m, rec) == Append(Append(m, rec), rec)
\* self.metrics.append(metrics)
Appended(m, rec) == Append(m, rec)

(***************************************************************************)
(* SixSigmaAnalyzer (lines 188-228).  The samples are fractions.  With L   *)
(* the product of their denominators, n their number, S the sum of the     *)
(* samples scaled by L and Q the sum of their squares,                     *)
(*     np.mean = S / (n L)       np.std = sqrt(n Q - S^2) / (n L)          *)
(* (the population standard deviation), so np.std is 0 exactly when        *)
(* n Q - S^2 is 0.                                                         *)
(***************************************************************************)
RECURSIVE DenProduct(_)
DenProduct(xs) == IF xs = << >> THEN 1 ELSE Head(xs).den * DenProduct(Tail(xs))

Scaled(xs) == [ i \in 1 .. Len(xs) |-> xs[i].num * (DenProduct(xs) \div xs[i].den) ]

RECURSIVE SumSeq(_)
SumSeq(zs) == IF zs = << >> THEN 0 ELSE Head(zs) + SumSeq(Tail(zs))

Squares(zs) == [ i \in 1 .. Len(zs) |-> zs[i] * zs[i] ]

\* n L
Scale(xs) == Len(xs) * DenProduct(xs)
\* np.mean(self.data)
Mean(xs) == Frac(SumSeq(Scaled(xs)), Scale(xs))
\* n Q - S^2: np.std(self.data) is sqrt(Radicand) / Scale
Radicand(xs) ==
    Len(xs) * SumSeq(Squares(Scaled(xs))) - SumSeq(Scaled(xs)) * SumSeq(Scaled(xs))
\* np.std(self.data) ** 2
Variance(xs) == Frac(Radicand(xs), Scale(xs) * Scale(xs))

\* A float that is a quotient by SigmaFactor * np.std: finite num / sqrt(rad),
\* or what numpy's float64 division by 0.0 gives (a warning, no exception):
\* inf, -inf, or nan for 0.0 / 0.0
Zero == [kind |-> "finite", num |-> 0, rad |-> 1]
IsZero(f) == f.kind = "finite" /\ f.num = 0

\* (x - y) / (3 * std) for x - y = num / Scale and std = sqrt(rad) / Scale
OverThreeStd(num, rad) ==
    IF rad = 0
      THEN [kind |-> IF num > 0 THEN "inf" ELSE IF num < 0 THEN "-inf" ELSE "nan",
            num |-> 0, rad |-> 0]
      ELSE [kind |-> "finite", num |-> num, rad |-> SigmaFactor * SigmaFactor * rad]

\* a < b on such floats (two finite ones have the same rad here); every
\* comparison with nan is false
FloatLess(a, b) ==
    /\ a.kind # "nan" /\ b.kind # "nan"
    /\ \/ a.kind = "-inf" /\ b.kind # "-inf"
       \/ b.kind = "inf" /\ a.kind # "inf"
       \/ a.kind = "finite" /\ b.kind = "finite" /\ a.num < b.num

\* Python's min(a, b): b when b < a, else a
PyMin(a, b) == IF FloatLess(b, a) THEN b ELSE a

\* (mutant) the guard lets a single sample through
TooFewNone(xs) == Len(xs) < 1
\* if len(self.data) < 2
TooFew(xs) == Len(xs) < 2

\* calculate_cpk (lines 194-201)
calculate_cpk(xs, u, l) ==
    IF TooFew(xs)
      THEN Zero
      ELSE PyMin(OverThreeStd(u * Scale(xs) - SumSeq(Scaled(xs)), Radicand(xs)),
                 OverThreeStd(SumSeq(Scaled(xs)) - l * Scale(xs), Radicand(xs)))

\* mean + k * std
Limit(xs, k) == [center |-> Mean(xs), k |-> k, var |-> Variance(xs)]

\* control_chart (lines 203-214): a dict, here the set of its items
control_chart(xs) ==
    IF TooFew(xs)
      THEN { }
      ELSE { << "upper_control_limit", Limit(xs, SigmaFactor) >>,
             << "lower_control_limit", Limit(xs, -SigmaFactor) >>,
             << "mean", Limit(xs, 0) >> }

\* (mutant) a sample at the threshold counts as a defect
IsDefectOrEqual(x) == x.num <= DefectThreshold * x.den
\* x < 10
IsDefect(x) == x.num < DefectThreshold * x.den
\* sum(1 for x in self.data if x < 10)
Defects(xs) == Cardinality({ i \in 1 .. Len(xs) : IsDefect(xs[i]) })

\* calculate_sigma_level (lines 216-228): 0.0, or the normal quantile of
\* 1 - defect_rate plus the 1.5 sigma shift, kept as the probability p
calculate_sigma_level(xs) ==
    IF TooFew(xs)
      THEN [kind |-> "zero", p |-> Frac(0, 1)]
      ELSE IF Defects(xs) >= Len(xs)
             THEN [kind |-> "zero", p |-> Frac(0, 1)]
             ELSE [kind |-> "quantile_plus_shift",
                   p |-> Frac(Len(xs) - Defects(xs), Len(xs))]

\* [m.throughput_mbps for m in self.metrics]
Throughputs(m) == [ i \in 1 .. Len(m) |-> m[i].throughput_mbps ]

\* (mutant) a single throughput counts as none
FewerThanTwoThroughputs(ts) == Len(ts) < 2
\* if not throughputs
NoThroughputs(ts) == ts = << >>

\* generate_quality_report (lines 136-153): {} is EmptyReport
EmptyReport == [empty |-> TRUE]
generate_quality_report(m) ==
    IF NoThroughputs(Throughputs(m))
      THEN EmptyReport
      ELSE [ empty |-> FALSE,
             throughput_stats |->
               [ mean |-> Mean(Throughputs(m)),
                 std_dev |-> Variance(Throughputs(m)),
                 cpk |-> calculate_cpk(Throughputs(m), ReportUsl, ReportLsl),
                 sigma_level |-> calculate_sigma_level(Throughputs(m)) ],
             transfer_metrics |-> m ]

(***************************************************************************)
(* State.                                                                  *)
(***************************************************************************)
VARIABLES
    pc,             \* the line the program is at
    ssh,            \* self.ssh: "unopened", "open" or "closed"
    scp,            \* self.scp: "unopened", "open" or "closed"
    metrics,        \* self.metrics
    idx,            \* number of entries of files_to_transfer already handled
    bodyError,      \* the with block was left by an error
    report,         \* << the value generate_quality_report returned >>, or << >>
    \* the arguments the main loop passes to every secure_transfer call
    verify, retries,
    \* the frame of the running secure_transfer call
    local_path, attempt, start_time, local_hash,
    transfer_time, remote_hash, file_size, exc, ret,
    \* the environment
    now,            \* time.time()
    localFile,      \* the content of the file at local_path, or Missing
    remoteFile,     \* the content of the file at remote_path
    \* history of the running call
    metricsAtCall,  \* self.metrics when the call began
    sleeps,         \* the durations of the sleeps of the call, in order
    attemptsMade,   \* the attempts begun by the call
    attemptBegin,   \* the clock when the running attempt began
    hashedContent,  \* the content the running attempt hashed
    putsMade,       \* the puts issued by the running attempt
    \* the analyzer applied on its own
    data, usl, lsl,     \* the samples and the spec limits
    cpk, chart, sigma   \* << the value returned >>, or << >> before the call

frame == << verify, retries, local_path, attempt, start_time, local_hash,
            transfer_time, remote_hash, file_size, exc, ret >>
env == << now, localFile, remoteFile >>
history == << metricsAtCall, sleeps, attemptsMade, attemptBegin, hashedContent,
              putsMade >>
session == << ssh, scp, metrics, idx, bodyError, report >>
analysis == << data, usl, lsl, cpk, chart, sigma >>
vars == << pc, session, frame, env, history, analysis >>

InAttempt == { "begin", "hash", "put", "elapsed", "verify", "stat", "record" }
InCall == InAttempt \cup { "except", "sleep" }

\* an operation takes no measurable time, or one unit of the clock
Ticks == { 0, 1 }

NoFrame ==
    /\ local_path = "none" /\ attempt = 0
    /\ start_time = 0 /\ local_hash = NoDigest /\ transfer_time = 0
    /\ remote_hash = NoDigest /\ file_size = 0 /\ exc = "none" /\ ret = "none"

NoHistory ==
    /\ metricsAtCall = << >> /\ sleeps = << >> /\ attemptsMade = 0
    /\ attemptBegin = 0 /\ hashedContent = Missing /\ putsMade = 0

NoAnalysis ==
    /\ data = << >> /\ usl = 0 /\ lsl = 0
    /\ cpk = << >> /\ chart = << >> /\ sigma = << >>

\* the program before SCPSigmaTransfer(**config) is evaluated
Init ==
    /\ pc = "init"
    /\ ssh = "unopened" /\ scp = "unopened"
    /\ metrics = << >> /\ idx = 0 /\ bodyError = FALSE /\ report = << >>
    /\ verify \in BOOLEAN /\ retries \in -1 .. MaxRetries
    /\ NoFrame
    /\ now = 0 /\ localFile = Missing /\ remoteFile = Missing
    /\ NoHistory
    /\ NoAnalysis

(***************************************************************************)
(* __init__ (lines 55-63).                                                 *)
(***************************************************************************)
\* self.ssh.connect(...): connects, or raises and leaves the program
Connect ==
    /\ pc = "init"
    /\ \/ ssh' = "open" /\ pc' = "connected"
       \/ ssh' = ssh /\ pc' = "ended"
    /\ UNCHANGED << scp, metrics, idx, bodyError, report, frame, env, history,
                    analysis >>

\* self.scp = SCPClient(...); self.metrics = []: or raises, and the with
\* block is never entered
MakeScp ==
    /\ pc = "connected"
    /\ \/ scp' = "open" /\ pc' = "idle"
       \/ scp' = scp /\ pc' = "ended"
    /\ metrics' = << >>
    /\ UNCHANGED << ssh, idx, bodyError, report, frame, env, history, analysis >>

(***************************************************************************)
(* secure_transfer (lines 65-121).                                         *)
(***************************************************************************)
\* client.secure_transfer(local, remote, verify, retries), up to the
\* evaluation of range(1, retries + 1): an empty range falls off the end of
\* the function, which returns None.  The file at local_path holds any
\* content, or is not there.
SecureTransferCall ==
    /\ pc = "idle" /\ idx < Len(files_to_transfer)
    /\ \E c \in Contents \cup { Missing } :
        /\ local_path' = files_to_transfer[idx + 1]
        /\ localFile' = c
        /\ IF RangeNonEmpty(retries)
             THEN pc' = "begin" /\ attempt' = 1 /\ ret' = "none"
             ELSE pc' = "returned" /\ attempt' = 0 /\ ret' = "None"
    /\ metricsAtCall' = metrics
    /\ sleeps' = << >> /\ attemptsMade' = 0
    /\ UNCHANGED << session, verify, retries, start_time, local_hash,
                    transfer_time, remote_hash, file_size, exc, now, remoteFile,
                    attemptBegin,
                    hashedContent, putsMade, analysis >>

\* line 86: start_time = time.time()
BeginAttempt ==
    /\ pc = "begin"
    /\ start_time' = StartTime(attempt, start_time, now)
    /\ attemptBegin' = now
    /\ attemptsMade' = attemptsMade + 1
    /\ hashedContent' = Missing
    /\ putsMade' = 0
    /\ exc' = "none"
    /\ pc' = "hash"
    /\ UNCHANGED << session, local_path, verify, retries, attempt, local_hash,
                    transfer_time, remote_hash, file_size, ret, env,
                    metricsAtCall, sleeps, analysis >>

\* line 89: local_hash = self._calculate_sha256(local_path); open() raises
\* when the file cannot be read
CalculateSha256 ==
    /\ pc = "hash"
    /\ IF localFile = Missing
         THEN /\ exc' = "OSError" /\ pc' = "except"
              /\ UNCHANGED << local_hash, hashedContent, now >>
         ELSE /\ local_hash' = LocalHash(attempt, local_hash, localFile)
              /\ hashedContent' = localFile
              /\ \E d \in Ticks : now' = now + d
              /\ pc' = "put"
              /\ exc' = exc
    /\ UNCHANGED << session, local_path, verify, retries, attempt, start_time,
                    transfer_time, remote_hash, file_size, ret, localFile,
                    remoteFile, metricsAtCall, sleeps, attemptsMade,
                    attemptBegin, putsMade, analysis >>

\* line 92: self.scp.put(local_path, remote_path): the remote file gets some
\* content (the local one or a corrupted one), or the put raises
Put ==
    /\ pc = "put"
    /\ putsMade' = putsMade + 1
    /\ \E d \in Ticks : now' = now + d
    /\ \/ /\ localFile # Missing
          /\ \E c \in Contents : remoteFile' = c
          /\ pc' = "elapsed" /\ exc' = exc
       \/ /\ exc' = IF localFile = Missing THEN "OSError" ELSE "SCPException"
          /\ pc' = "except"
          /\ remoteFile' = remoteFile
    /\ UNCHANGED << session, local_path, verify, retries, attempt, start_time,
                    local_hash, transfer_time, remote_hash, file_size, ret,
                    localFile, metricsAtCall, sleeps, attemptsMade,
                    attemptBegin, hashedContent, analysis >>

\* line 93: transfer_time = time.time() - start_time
MeasureElapsed ==
    /\ pc = "elapsed"
    /\ transfer_time' = now - start_time
    /\ pc' = "verify"
    /\ UNCHANGED << session, local_path, verify, retries, attempt, start_time,
                    local_hash, remote_hash, file_size, exc, ret, env, history,
                    analysis >>

\* lines 96-99: the remote digest command, the parse of its first token and
\* the comparison with the local digest
VerifyChecksum ==
    /\ pc = "verify"
    /\ IF ~verify
         THEN /\ pc' = "stat"
              /\ UNCHANGED << remote_hash, exc, now >>
         ELSE /\ \E d \in Ticks : now' = now + d
              /\ \/ /\ exc' = "SSHException" /\ pc' = "except"
                    /\ remote_hash' = remote_hash
                 \/ \E out \in RemoteOutputs(remoteFile) :
                      IF ~HasFirstToken(out)
                        THEN /\ exc' = "IndexError" /\ pc' = "except"
                             /\ remote_hash' = remote_hash
                        ELSE /\ remote_hash' = FirstToken(out)
                             /\ IF Mismatch(local_hash, FirstToken(out))
                                  THEN exc' = "IntegrityError" /\ pc' = "except"
                                  ELSE exc' = exc /\ pc' = "stat"
    /\ UNCHANGED << session, local_path, verify, retries, attempt, start_time,
                    local_hash, transfer_time, file_size, ret, localFile,
                    remoteFile, history, analysis >>

\* line 102: file_size = Path(local_path).stat().st_size
StatSize ==
    /\ pc = "stat"
    /\ IF localFile = Missing
         THEN exc' = "OSError" /\ pc' = "except" /\ file_size' = file_size
         ELSE file_size' = SizeOf(localFile) /\ pc' = "record" /\ exc' = exc
    /\ UNCHANGED << session, local_path, verify, retries, attempt, start_time,
                    local_hash, transfer_time, remote_hash, ret, env, history,
                    analysis >>

\* lines 103-114: build the record (the throughput divides by transfer_time),
\* append it and return True
RecordMetrics ==
    /\ pc = "record"
    /\ IF transfer_time = 0
         THEN /\ exc' = "ZeroDivisionError" /\ pc' = "except"
              /\ UNCHANGED << metrics, ret >>
         ELSE /\ metrics' = Appended(metrics,
                    TransferMetrics(local_path, file_size, transfer_time,
                                    local_hash, now))
              /\ ret' = "True" /\ pc' = "returned" /\ exc' = exc
    /\ UNCHANGED << ssh, scp, idx, bodyError, report, local_path, verify,
                    retries, attempt, start_time, local_hash, transfer_time,
                    remote_hash, file_size, env, history, analysis >>

\* lines 116-120: the handler of a failed attempt.  transfer_time,
\* remote_hash and file_size are cleared: the next attempt assigns each of
\* them before it reads it.
HandleFailure ==
    /\ pc = "except"
    /\ IF Caught(exc)
         THEN IF Exhausted(attempt, retries)
                THEN ret' = "False" /\ pc' = "returned"
                ELSE ret' = ret /\ pc' = "sleep"
         ELSE ret' = "raised" /\ pc' = "returned"
    /\ transfer_time' = 0 /\ remote_hash' = NoDigest /\ file_size' = 0
    /\ UNCHANGED << session, verify, retries, local_path, attempt, start_time,
                    local_hash, exc, env, history, analysis >>

\* line 121, the last of the handler (Python unbinds e when the handler
\* ends), and the next turn of the loop of line 84
Sleep ==
    /\ pc = "sleep"
    /\ now' = now + BackoffDelay(attempt)
    /\ sleeps' = Append(sleeps, BackoffDelay(attempt))
    /\ attempt' = attempt + 1
    /\ exc' = "none"
    /\ pc' = "begin"
    /\ UNCHANGED << session, verify, retries, local_path, start_time,
                    local_hash, transfer_time, remote_hash, file_size, ret,
                    localFile, remoteFile, metricsAtCall, attemptsMade,
                    attemptBegin, hashedContent, putsMade, analysis >>

\* another process rewrites or removes the local file while the call runs.
\* The call reads the file at lines 89, 92 and 102: a rewrite at any other
\* moment is seen as one made right before the next of these reads.
EnvWrite ==
    /\ pc \in { "hash", "put", "stat" }
    /\ \E c \in (Contents \cup { Missing }) \ { localFile } : localFile' = c
    /\ UNCHANGED << pc, session, frame, now, remoteFile, history, analysis >>

(***************************************************************************)
(* The body of the with block (lines 248-257) and __exit__ (184-186).      *)
(***************************************************************************)
\* the for loop takes the next entry once secure_transfer has returned; its
\* return value is dropped.  An exception that left secure_transfer leaves
\* the with block.
LoopNext ==
    /\ pc = "returned"
    /\ IF ret = "raised"
         THEN pc' = "exit_scp" /\ bodyError' = TRUE /\ idx' = idx
         ELSE pc' = "idle" /\ bodyError' = bodyError /\ idx' = idx + 1
    /\ local_path' = "none" /\ attempt' = 0
    /\ start_time' = 0 /\ local_hash' = NoDigest /\ transfer_time' = 0
    /\ remote_hash' = NoDigest /\ file_size' = 0 /\ exc' = "none" /\ ret' = "none"
    /\ metricsAtCall' = << >> /\ sleeps' = << >> /\ attemptsMade' = 0
    /\ attemptBegin' = 0 /\ hashedContent' = Missing /\ putsMade' = 0
    /\ localFile' = Missing /\ remoteFile' = Missing
    /\ UNCHANGED << ssh, scp, metrics, report, verify, retries, now, analysis >>

\* line 253: report = client.generate_quality_report()
GenerateQualityReport ==
    /\ pc = "idle" /\ idx = Len(files_to_transfer)
    /\ report' = << generate_quality_report(metrics) >>
    /\ pc' = "dump"
    /\ UNCHANGED << ssh, scp, metrics, idx, bodyError, frame, env, history,
                    analysis >>

\* lines 254-255: the report is written to a file, or open() raises
DumpReport ==
    /\ pc = "dump"
    /\ \/ pc' = "plot" /\ bodyError' = bodyError
       \/ pc' = "exit_scp" /\ bodyError' = TRUE
    /\ UNCHANGED << ssh, scp, metrics, idx, report, frame, env, history,
                    analysis >>

\* line 257: client.plot_control_chart(...): nothing is drawn without
\* records; looking up limits['upper_control_limit'] in the empty dict of
\* control_chart raises KeyError
PlotControlChart ==
    /\ pc = "plot"
    /\ chart' = IF Throughputs(metrics) = << >>
                  THEN chart
                  ELSE << control_chart(Throughputs(metrics)) >>
    /\ bodyError' = (Throughputs(metrics) # << >>
                       /\ control_chart(Throughputs(metrics)) = { })
    /\ pc' = "exit_scp"
    /\ UNCHANGED << ssh, scp, metrics, idx, report, frame, env, history,
                    data, usl, lsl, cpk, sigma >>

\* line 185: self.scp.close(), or it raises and __exit__ is left
ExitScpClose ==
    /\ pc = "exit_scp"
    /\ \/ scp' = "closed" /\ pc' = "exit_ssh"
       \/ scp' = scp /\ pc' = "ended"
    /\ UNCHANGED << ssh, metrics, idx, bodyError, report, frame, env, history,
                    analysis >>

\* line 186: self.ssh.close(), or it raises
ExitSshClose ==
    /\ pc = "exit_ssh"
    /\ \/ ssh' = "closed"
       \/ ssh' = ssh
    /\ pc' = "ended"
    /\ UNCHANGED << scp, metrics, idx, bodyError, report, frame, env, history,
                    analysis >>

Next ==
    \/ Connect \/ MakeScp
    \/ SecureTransferCall \/ BeginAttempt \/ CalculateSha256 \/ Put
    \/ MeasureElapsed \/ VerifyChecksum \/ StatSize \/ RecordMetrics
    \/ HandleFailure \/ Sleep \/ EnvWrite
    \/ LoopNext \/ GenerateQualityReport \/ DumpReport \/ PlotControlChart
    \/ ExitScpClose \/ ExitSshClose

Spec == Init /\ [][Next]_vars

\* time.time() of lines 86 and 93 is the system clock, which an administrator
\* or a time service may set back while the put runs: the reading of line 93
\* is then earlier than the one of line 86.  Spec has a clock that is never
\* set back; SpecClock adds the adjustment.
ClockSetBack ==
    /\ pc = "elapsed" /\ now >= start_time
    /\ now' = start_time - 1
    /\ UNCHANGED << pc, session, frame, localFile, remoteFile, history,
                    analysis >>

NextClock == Next \/ ClockSetBack

SpecClock == Init /\ [][NextClock]_vars

(***************************************************************************)
(* The analyzer on its own: any samples, any spec limits.                  *)
(***************************************************************************)
SampleValues == { Frac(5, 1), Frac(15, 2), Frac(10, 1), Frac(25, 2) }
Limits == { 0, 10, 100 }

RECURSIVE SeqsUpTo(_, _)
SeqsUpTo(S, n) ==
    IF n = 0 THEN { << >> }
    ELSE SeqsUpTo(S, n - 1) \cup
         { Append(q, x) : q \in { r \in SeqsUpTo(S, n - 1) : Len(r) = n - 1 }, x \in S }

\* SixSigmaAnalyzer(data), line 191
InitStats ==
    /\ pc = "init"
    /\ ssh = "unopened" /\ scp = "unopened"
    /\ metrics = << >> /\ idx = 0 /\ bodyError = FALSE /\ report = << >>
    /\ verify = FALSE /\ retries = 0
    /\ NoFrame
    /\ now = 0 /\ localFile = Missing /\ remoteFile = Missing
    /\ NoHistory
    /\ data \in SeqsUpTo(SampleValues, MaxSamples)
    /\ usl \in Limits /\ lsl \in Limits
    /\ cpk = << >> /\ chart = << >> /\ sigma = << >>

CalculateCpk ==
    /\ cpk' = << calculate_cpk(data, usl, lsl) >>
    /\ UNCHANGED << pc, session, frame, env, history, data, usl, lsl, chart, sigma >>

ControlChart ==
    /\ chart' = << control_chart(data) >>
    /\ UNCHANGED << pc, session, frame, env, history, data, usl, lsl, cpk, sigma >>

CalculateSigmaLevel ==
    /\ sigma' = << calculate_sigma_level(data) >>
    /\ UNCHANGED << pc, session, frame, env, history, data, usl, lsl, cpk, chart >>

NextStats == CalculateCpk \/ ControlChart \/ CalculateSigmaLevel

SpecStats == InitStats /\ [][NextStats]_vars

(***************************************************************************)
(* Properties of secure_transfer, checked under Spec.                      *)
(***************************************************************************)
Returned(value) == pc = "returned" /\ ret = value
LastRecord == metrics[Len(metrics)]

\* C1: a call with retries >= 1 that returns True has appended exactly one
\* record to the records held when it began; a call that returns False has
\* left them as they were; while the call runs (so during and after every
\* failed attempt) nothing has been appended yet.
C1_OneRecordPerSuccess ==
    /\ pc \in InCall => metrics = metricsAtCall
    /\ Returned("True") =>
          /\ Len(metrics) = Len(metricsAtCall) + 1
          /\ SubSeq(metrics, 1, Len(metricsAtCall)) = metricsAtCall
    /\ Returned("False") => metrics = metricsAtCall

C1_Witness ==
    /\ Returned("True") /\ attemptsMade >= 2 /\ Len(metricsAtCall) = 1

\* C2: the sleeps made so far are 2, 4, ..., one after each failed attempt
\* but the last: a call that returns False has made exactly retries attempts
\* and retries - 1 sleeps, the k-th of 2^k units.
C2_BackoffSchedule ==
    /\ pc \in InCall =>
          /\ sleeps = [ k \in 1 .. attempt - 1 |-> Pow(2, k) ]
          /\ attemptsMade \in { attempt - 1, attempt }
    /\ Returned("False") =>
          /\ attemptsMade = retries
          /\ sleeps = [ k \in 1 .. retries - 1 |-> Pow(2, k) ]

C2_Witness ==
    /\ Returned("False") /\ retries = 3 /\ sleeps = << 2, 4 >>

\* C3: False is returned only by the handler of attempt number retries; the
\* attempt counter is 1 when the call begins, grows only by one and only in
\* the sleep that follows a failed attempt with attempt < retries, and never
\* exceeds retries.
C3_AttemptStep ==
    /\ (ret' = "False" /\ ret # "False") =>
          pc = "except" /\ attempt = retries /\ attemptsMade = retries
    /\ (pc' = "begin" /\ pc = "idle") => attempt' = 1
    /\ (pc \in InCall /\ attempt' # attempt) =>
          /\ pc = "sleep" /\ attempt < retries /\ attempt' = attempt + 1
    /\ pc' = "sleep" => pc = "except"
    /\ pc' \in InCall => (1 <= attempt' /\ attempt' <= retries)

C3_FalseOnlyAfterAllAttempts == [][C3_AttemptStep]_vars

C3_Witness ==
    /\ Returned("False") /\ attempt = 3 /\ attemptsMade = 3

\* C4: with verify on, a digest mismatch is a failed attempt like any other:
\* no record, then a sleep of 2^attempt and the next attempt when
\* attempt < retries, or False when attempt = retries; and an attempt gets
\* past the verification only with equal digests.
HandledAsFailure(e) ==
    /\ (pc = "except" /\ exc = e) =>
          /\ metrics = metricsAtCall /\ metrics' = metrics
          /\ IF attempt < retries
               THEN pc' = "sleep" /\ ret' = "none"
               ELSE pc' = "returned" /\ ret' = "False"
    /\ (pc = "sleep" /\ exc = e) =>
          /\ pc' = "begin" /\ attempt' = attempt + 1
          /\ now' = now + Pow(2, attempt)
          /\ metrics' = metrics

C4_MismatchStep ==
    /\ HandledAsFailure("IntegrityError")
    /\ (pc = "except" /\ exc = "IntegrityError") =>
          verify /\ local_hash # remote_hash
    /\ (verify /\ pc' \in { "stat", "record" }) => local_hash' = remote_hash'
    /\ (verify /\ ret' = "True") => local_hash' = remote_hash'

C4_MismatchIsRetried == [][C4_MismatchStep]_vars

C4_Witness ==
    /\ pc = "sleep" /\ exc = "IntegrityError" /\ attempt = 2 /\ retries = 3

\* C5: no exception leaves secure_transfer: whatever failed inside an
\* attempt, a call that made an attempt ends by returning True or False.
C5_NoExceptionEscapes ==
    /\ ret # "raised"
    /\ (pc = "returned" /\ attemptsMade >= 1) => ret \in { "True", "False" }

C5_Witness ==
    /\ Returned("False") /\ exc = "ZeroDivisionError" /\ retries = 1

\* C6: the record of a successful call carries the digest of the content
\* hashed in the attempt that succeeded, and with verify on that digest is
\* the one the remote digest command returned in that attempt.
C6_RecordDigest ==
    Returned("True") =>
        /\ hashedContent # Missing
        /\ LastRecord.sha256_checksum = LocalDigest(hashedContent)
        /\ verify => LastRecord.sha256_checksum = remote_hash

C6_Witness ==
    /\ Returned("True") /\ verify /\ attemptsMade = 3

\* C7: the duration of the record lies between the begin of the successful
\* attempt and the creation of the record: it holds nothing of the earlier
\* attempts and of the sleeps.
C7_DurationOfSuccessfulAttempt ==
    Returned("True") =>
        attemptBegin + LastRecord.duration_sec <= LastRecord.timestamp

C7_Witness ==
    /\ Returned("True") /\ sleeps = << 2, 4 >> /\ attemptBegin >= 6

\* C8: once the session has ended, neither the SCP client nor the SSH
\* connection is open.
C8_ReleasedOnEveryExit ==
    pc = "ended" => (scp # "open" /\ ssh # "open")

(***************************************************************************)
(* Properties of the analyzer, checked under SpecStats.                    *)
(***************************************************************************)
\* C9: with 0 or 1 samples calculate_cpk returns 0.0 for all spec limits,
\* control_chart the empty dict and calculate_sigma_level 0.0.
C9_SentinelsBelowTwoSamples ==
    Len(data) < 2 =>
        /\ cpk # << >> => cpk[1] = Zero
        /\ chart # << >> => chart[1] = { }
        /\ sigma # << >> => sigma[1].kind = "zero"

C9_Witness ==
    /\ Len(data) = 1 /\ cpk = << Zero >> /\ chart = << { } >> /\ sigma # << >>

\* C10: for 2 or more identical samples calculate_cpk returns 0.0 for all
\* spec limits.
AllIdentical(xs) == \A i \in 1 .. Len(xs) : xs[i] = xs[1]

C10_ZeroForConstantSamples ==
    (Len(data) >= 2 /\ AllIdentical(data) /\ cpk # << >>) => cpk[1] = Zero

(***************************************************************************)
(* Properties of the report and of the records, checked under Spec.        *)
(***************************************************************************)
ReportMade == report # << >>

\* C11 (as claimed): the report is the empty result whenever the session
\* holds fewer than 2 records, zero or one.
C11_EmptyReportBelowTwoRecords ==
    (ReportMade /\ Len(metrics) < 2) => report[1].empty

\* C11 (amended): the report is the empty result exactly when the session
\* holds no record; with exactly one record it is populated, its cpk and its
\* sigma_level are the sentinel 0.0, its mean is that record's throughput
\* and its transfer_metrics holds that record.
C11_EmptyReportOnlyWithoutRecords ==
    ReportMade =>
        /\ report[1].empty <=> Len(metrics) = 0
        /\ Len(metrics) = 1 =>
              /\ report[1].throughput_stats.cpk = Zero
              /\ report[1].throughput_stats.sigma_level.kind = "zero"
              /\ report[1].throughput_stats.mean = metrics[1].throughput_mbps
              /\ report[1].transfer_metrics = metrics

C11_Witness ==
    /\ ReportMade /\ Len(metrics) = 1 /\ ~report[1].empty

(***************************************************************************)
(* Properties of calculate_sigma_level, checked under SpecStats.           *)
(***************************************************************************)
\* the samples of xs strictly below 10
BelowTen(xs) == { i \in 1 .. Len(xs) : xs[i].num < 10 * xs[i].den }
\* a <= b on fractions with positive denominators
FracLeq(a, b) == a.num * b.den <= b.num * a.den
\* the value calculate_sigma_level returns is, when not 0.0, the normal
\* quantile of p plus 1.5, which grows with p: the values are ordered as
\* their p are
SigmaLeq(a, b) ==
    /\ a.kind = "quantile_plus_shift" /\ b.kind = "quantile_plus_shift"
    /\ FracLeq(a.p, b.p)

\* C12: for 2 or more samples the defects are the samples strictly below 10
\* (a sample equal to 10 is none); the level is 0.0 when all samples are
\* defects; and among sample sequences of the same length with a defect rate
\* below 1, one with at least as many defects has a level that is not higher.
C12_SigmaLevelByDefectRate ==
    (Len(data) >= 2 /\ sigma # << >>) =>
        /\ Cardinality(BelowTen(data)) = Len(data) => sigma[1].kind = "zero"
        /\ Cardinality(BelowTen(data)) < Len(data) =>
              /\ sigma[1].kind = "quantile_plus_shift"
              /\ sigma[1].p.num * Len(data) =
                    (Len(data) - Cardinality(BelowTen(data))) * sigma[1].p.den
              /\ \A ys \in SeqsUpTo(SampleValues, MaxSamples) :
                    ( /\ Len(ys) = Len(data)
                      /\ Cardinality(BelowTen(ys)) >= Cardinality(BelowTen(data))
                      /\ Cardinality(BelowTen(ys)) < Len(ys) )
                    => SigmaLeq(calculate_sigma_level(ys), sigma[1])

C12_Witness ==
    /\ Len(data) = 3 /\ sigma # << >>
    /\ data[1] = Frac(10, 1) /\ data[2] = Frac(5, 1) /\ data[3] = Frac(15, 2)
    /\ sigma[1].kind = "quantile_plus_shift" /\ sigma[1].p = Frac(1, 3)

(***************************************************************************)
(* The metrics list as seen by its readers.                                *)
(***************************************************************************)
\* the program is about to build the report, write it, or draw the chart
Reporting ==
    \/ pc = "idle" /\ idx = Len(files_to_transfer)
    \/ pc \in { "dump", "plot" }

\* C13: building the report and drawing the chart (with the analyzer calls
\* they make) leave the metrics list as it is; no step of any transfer
\* changes or removes a record already in the list; and a report just built
\* lists exactly the records held at that moment, in order.
C13_StepKeepsRecords ==
    /\ Len(metrics') >= Len(metrics)
    /\ SubSeq(metrics', 1, Len(metrics)) = metrics
    /\ Reporting => metrics' = metrics
    /\ report' # report =>
          \/ report'[1].empty /\ metrics = << >>
          \/ ~report'[1].empty /\ report'[1].transfer_metrics = metrics
C13_ReadersLeaveMetrics == [][C13_StepKeepsRecords]_vars

C13_Witness ==
    /\ pc = "exit_scp" /\ Len(metrics) = 2
    /\ report # << >> /\ chart # << >>
    /\ report[1].transfer_metrics = metrics

(***************************************************************************)
(* The numbers of a record.                                                *)
(***************************************************************************)
\* C14: every record of the metrics list has duration_sec > 0 and a
\* throughput_mbps equal to size_bytes * 8 / (duration_sec * 1000000) of its
\* own size and duration, whatever elapsed time the clock reported.
C14_PositiveDurationAndDerivedThroughput ==
    \A i \in 1 .. Len(metrics) :
        /\ metrics[i].duration_sec > 0
        /\ metrics[i].throughput_mbps.num * (metrics[i].duration_sec * 1000000) =
              (metrics[i].size_bytes * 8) * metrics[i].throughput_mbps.den

(***************************************************************************)
(* The order of the steps of an attempt.                                   *)
(***************************************************************************)
\* C15: the start time is recorded after the local digest was computed, so
\* that when the put is about to begin no time has passed since the start
\* time, and the duration covers the put only.
C15_StartTimeAfterDigest == pc = "put" => start_time = now

\* C16: an attempt whose digest, put, verification and size reading went
\* through appends its record and returns True in that same attempt,
\* whatever non-negative elapsed time was measured.
C16_CleanStep ==
    pc = "record" =>
        /\ pc' = "returned" /\ ret' = "True"
        /\ Len(metrics') = Len(metrics) + 1
        /\ putsMade' = putsMade /\ sleeps' = sleeps
C16_CleanAttemptSucceeds == [][C16_CleanStep]_vars

\* str.lower() of a digest string
Lower(d) == [d EXCEPT !.upper = FALSE]

\* C17: the remote digest is put in lower case before the comparison, so an
\* attempt fails on the digests only when they differ in more than the case
\* of their letters.
C17_CaseInsensitiveMatch ==
    (pc = "except" /\ exc = "IntegrityError") => Lower(remote_hash) # local_hash

\* C18: the size_bytes of the record of a successful call is the size of the
\* content that was hashed and sent in the successful attempt, also when the
\* local file is rewritten during the call.
C18_SizeOfTransferredContent ==
    Returned("True") =>
        /\ LastRecord.size_bytes = SizeOf(hashedContent)
        /\ LastRecord.size_bytes = SizeOf(remoteFile)

(***************************************************************************)
(* Termination of a call.                                                  *)
(***************************************************************************)
\* the steps an attempt still has before it, by the place it is at
StepsLeft(p) ==
    CASE p = "begin" -> 9 [] p = "hash" -> 8 [] p = "put" -> 7
      [] p = "elapsed" -> 6 [] p = "verify" -> 5 [] p = "stat" -> 4
      [] p = "record" -> 3 [] p = "except" -> 2 [] p = "sleep" -> 1
      [] OTHER -> 0
\* a bound on the steps the call still has before it
Rank(p, a, r) == IF p \in InCall THEN (r - a) * 10 + StepsLeft(p) ELSE 0

\* C19: while a call with retries >= 1 runs, its attempt number is between 1
\* and retries and every step it takes lowers a non-negative bound on the
\* steps left, so it ends when each operation returns; it ends with True or
\* False; once it has returned nothing is put, run remotely or slept for it,
\* and the loop moves to the next file only from there.
C19_CallStep ==
    /\ pc \in InCall => attempt \in 1 .. retries /\ attemptsMade <= retries
    /\ (pc \in InCall /\ << pc, attempt >> # << pc', attempt' >>) =>
          /\ Rank(pc', attempt', retries') < Rank(pc, attempt, retries)
          /\ Rank(pc', attempt', retries') >= 0
          /\ pc' \in InCall \/ (pc' = "returned" /\ ret' \in { "True", "False" })
    /\ pc = "returned" =>
          /\ pc' = "idle" /\ idx' = idx + 1
          /\ now' = now /\ metrics' = metrics
    /\ (pc' \in InCall /\ pc \notin InCall) =>
          pc = "idle" /\ pc' = "begin" /\ attempt' = 1 /\ idx' = idx
    /\ idx' # idx => pc = "returned"
C19_CallTerminates == [][C19_CallStep]_vars

C19_Witness ==
    /\ Returned("False") /\ idx = 1
    /\ retries >= 2 /\ attemptsMade = retries /\ Len(sleeps) = retries - 1

====
